---- MODULE Spec2Model ----
(***************************************************************************)
(* Model of the Mimi room policy engine (src/src/lib.rs): the role table,  *)
(* capability resolution, protection, the batch pipeline try_make_actions, *)
(* consistency_checks and the committing wrapper                           *)
(* VerifiedRoomState::make_actions.                                        *)
(***************************************************************************)
EXTENDS Integers, Sequences, FiniteSets, TLC

VARIABLES
    room,      \* the RoomState held by the VerifiedRoomState
    template,  \* the PolicyTemplate the room was constructed from
    pc,        \* "idle", or "returned" right after a make_actions call
    call,      \* the arguments of the last make_actions call
    result,    \* what the last make_actions call returned
    before,    \* the committed state the last call started from
    wire       \* a BTreeMap on its way through tls::btreemap, or NoWire

vars == <<room, template, pc, call, result, before, wire>>

-----------------------------------------------------------------------------
(* Bounds of the model *)

\* longest batch of actions submitted in one call
MaxBatch == 2

\* length in bytes of the longest string stored in a serialized map
MaxValueLen == 64

\* largest number used for a role's min or max in a policy edit
MaxCount == 1

-----------------------------------------------------------------------------
(* Values *)

Range(s) == {s[i] : i \in DOMAIN s}

\* Option<T>: None is the empty set, Some(x) the singleton
None == {}
Some(x) == {x}

\* user identifiers the calls are drawn from; the first is the room's creator
OwnerId == "@owner"
UserIds == {"@owner", "@bob", "@carol"}

\* RoleIndex, in the order of its derived Ord
RoleOrder == <<"Outsider", "Restricted", "Regular", "Moderator", "Admin", "Owner", "Custom1">>
RoleIndex == Range(RoleOrder)
StructuralRoles == {"Outsider", "Restricted", "Regular", "Moderator", "Admin", "Owner"}
is_custom(role) == role \notin StructuralRoles
RoleOrd(role) == CHOOSE i \in DOMAIN RoleOrder : RoleOrder[i] = role

\* MessageType, in the order of its derived Ord
MessageTypeOrder == <<"Reaction", "Text", "Image", "Audio", "Voice", "Video", "File", "ControlConference">>
MessageType == Range(MessageTypeOrder)

\* Capability, in the order of its derived Ord: variant first, then its field
CapabilityOrder == <<"Knock", "Kick", "Ban", "GiveRoleOther", "DropRoleOther", "GiveRoleSelf",
                     "IgnoreRatelimit", "SendMessage", "EditMessageOther", "EditMessageSelf",
                     "DeleteMessageOther", "DeleteMessageSelf">>
Cap(kind) == [kind |-> kind, arg |-> "-"]
CapRole(kind, role) == [kind |-> kind, arg |-> role]
CapSend(message_type) == [kind |-> "SendMessage", arg |-> message_type]
CapArgOrd(c) ==
    IF c.kind \in {"GiveRoleOther", "DropRoleOther", "GiveRoleSelf"} THEN RoleOrd(c.arg)
    ELSE IF c.kind = "SendMessage"
         THEN CHOOSE i \in DOMAIN MessageTypeOrder : MessageTypeOrder[i] = c.arg
         ELSE 0
CapKindOrd(c) == CHOOSE i \in DOMAIN CapabilityOrder : CapabilityOrder[i] = c.kind
CapLess(c, d) ==
    \/ CapKindOrd(c) < CapKindOrd(d)
    \/ CapKindOrd(c) = CapKindOrd(d) /\ CapArgOrd(c) < CapArgOrd(d)

\* Vec::sort followed by Vec::dedup: the distinct elements in ascending order
RECURSIVE SortDedupCaps(_)
SortDedupCaps(S) ==
    IF S = {} THEN <<>>
    ELSE LET m == CHOOSE x \in S : \A y \in S \ {x} : CapLess(x, y)
         IN  <<m>> \o SortDedupCaps(S \ {m})

RECURSIVE SortDedupRoles(_)
SortDedupRoles(S) ==
    IF S = {} THEN <<>>
    ELSE LET m == CHOOSE x \in S : \A y \in S : RoleOrd(x) <= RoleOrd(y)
         IN  <<m>> \o SortDedupRoles(S \ {m})

\* the length limit of role_name and role_description
MaxStrLen == 1000

RECURSIVE Repeat(_, _)
Repeat(s, n) ==
    IF n = 0 THEN ""
    ELSE IF n % 2 = 1 THEN s \o Repeat(s, n - 1)
    ELSE LET h == Repeat(s, n \div 2) IN h \o h

RoleInfo(name, description, capabilities, dependencies, min, max) ==
    [role_name |-> name, role_description |-> description,
     role_capabilities |-> capabilities, dependencies |-> dependencies,
     min |-> min, max |-> max]

-----------------------------------------------------------------------------
(* RoomState::new_from_template and RoomState::new *)

PolicyTemplate ==
    {"Announcement", "Public", "InviteOnly", "Knock", "FixedMembership", "ParentDependent"}

\* the template whose Restricted role is todo!(): new_from_template aborts
TemplateTodo(t) == t = "ParentDependent"

\* an Outsider role that lets anyone join, whatever the template
OutsiderTemplateRole_open(t) ==
    RoleInfo("Outsider", "Not in the room", <<CapRole("GiveRoleSelf", "Restricted")>>,
             <<>>, 0, Some(0))

OutsiderTemplateRole(t) ==
    RoleInfo("Outsider", "Not in the room",
             IF t \in {"Announcement", "Public"} THEN <<CapRole("GiveRoleSelf", "Restricted")>>
             ELSE IF t = "Knock" THEN <<Cap("Knock")>>
             ELSE <<>>,
             <<>>, 0, Some(0))

RestrictedTemplateRole(t) ==
    IF t = "Announcement"
    THEN RoleInfo("Visitor", "Can only send reactions",
                  <<Cap("EditMessageSelf"), Cap("DeleteMessageSelf"), CapSend("Reaction"),
                    CapRole("GiveRoleOther", "Restricted")>>,
                  <<>>, 0, None)
    ELSE RoleInfo("Restricted", "Can only read",
                  <<Cap("EditMessageSelf"), Cap("DeleteMessageSelf")>>,
                  <<>>, 0, None)

RegularTemplateRole ==
    RoleInfo("Regular user", "Can read and send messages normally",
             <<CapSend("Text"), CapSend("Image"), CapSend("Voice"), CapSend("Audio"),
               CapSend("Video"), CapSend("File"), Cap("IgnoreRatelimit")>>,
             <<"Restricted">>, 0, None)

\* a Moderator role that can also hand out Restricted
ModeratorTemplateRole_inviting ==
    RoleInfo("Moderator",
             "Can edit or remove messages sent by others. Can promote more moderators",
             <<Cap("EditMessageOther"), Cap("DeleteMessageOther"), Cap("Kick"), Cap("Ban"),
               CapSend("ControlConference"), CapRole("GiveRoleOther", "Restricted"),
               CapRole("GiveRoleOther", "Regular"), CapRole("GiveRoleOther", "Moderator")>>,
             <<"Regular">>, 0, None)

ModeratorTemplateRole ==
    RoleInfo("Moderator",
             "Can edit or remove messages sent by others. Can promote more moderators",
             <<Cap("EditMessageOther"), Cap("DeleteMessageOther"), Cap("Kick"), Cap("Ban"),
               CapSend("ControlConference"), CapRole("GiveRoleOther", "Regular"),
               CapRole("GiveRoleOther", "Moderator")>>,
             <<"Regular">>, 0, None)

AdminTemplateRole ==
    RoleInfo("Admin", "Has all capabilities", <<>>, <<"Moderator">>, 0, None)

OwnerTemplateRole ==
    RoleInfo("Owner", "Is protected from admins", <<>>, <<"Admin">>, 1, Some(1))

TemplateRoles(t) ==
    [r \in StructuralRoles |->
        CASE r = "Outsider" -> OutsiderTemplateRole(t)
          [] r = "Restricted" -> RestrictedTemplateRole(t)
          [] r = "Regular" -> RegularTemplateRole
          [] r = "Moderator" -> ModeratorTemplateRole
          [] r = "Admin" -> AdminTemplateRole
          [] r = "Owner" -> OwnerTemplateRole]

TemplatePolicy(t) ==
    [roles |-> TemplateRoles(t),
     parent_room |-> None,
     password_protected |-> None,
     delivery_notifications |-> "Optional",
     read_receipts |-> "Optional",
     pseudonymous_ids |-> FALSE]

\* RoomState::new: the owner holds the five member roles, nobody is banned
NewRoomState(owner, policy) ==
    [policy |-> policy,
     user_roles |-> [u \in {owner} |-> {"Restricted", "Regular", "Moderator", "Admin", "Owner"}],
     users_banned |-> [u \in {} |-> 0]]

NewFromTemplate(owner, t) == NewRoomState(owner, TemplatePolicy(t))

-----------------------------------------------------------------------------
(* Results: Rust's Result<T, Error>, plus "Panic" for assert!/todo!/expect *)

OkB(b) == [err |-> "Ok", val |-> b]
ErrB(e) == [err |-> e, val |-> FALSE]
OkS(s) == [err |-> "Ok", state |-> s]
ErrS(e, s) == [err |-> e, state |-> s]

-----------------------------------------------------------------------------
(* Role queries *)

is_mod(s, user_id) ==
    IF user_id \notin DOMAIN s.user_roles THEN ErrB("UserNotInRoom")
    ELSE OkB("Moderator" \in s.user_roles[user_id])

is_admin(s, user_id) ==
    OkB(user_id \in DOMAIN s.user_roles /\ "Admin" \in s.user_roles[user_id])

is_owner(s, user_id) ==
    IF user_id \notin DOMAIN s.user_roles THEN ErrB("UserNotInRoom")
    ELSE OkB("Owner" \in s.user_roles[user_id])

\* is_protected_from without its Owner and Admin clauses
is_protected_from_moderators_only(s, actor, target) ==
    IF actor = target THEN OkB(FALSE)
    ELSE LET mt == is_mod(s, target)
         IN  IF mt.err # "Ok" THEN mt
             ELSE IF ~mt.val THEN OkB(FALSE)
             ELSE OkB(~is_admin(s, actor).val)

\* is_protected_from answering "not protected" for a target outside the room
is_protected_from_absent_unprotected(s, actor, target) ==
    IF actor = target \/ target \notin DOMAIN s.user_roles THEN OkB(FALSE)
    ELSE IF "Owner" \in s.user_roles[target] THEN OkB(TRUE)
    ELSE IF "Admin" \in s.user_roles[target] /\ ~is_owner(s, actor).val THEN OkB(TRUE)
    ELSE OkB("Moderator" \in s.user_roles[target] /\ is_admin(s, actor).val)

\* is_owner(target)? || is_admin(target)? && !is_owner(actor)?
\*                    || is_mod(target)? && is_admin(actor)?
is_protected_from(s, actor, target) ==
    IF actor = target THEN OkB(FALSE)
    ELSE
    LET third ==
            LET mt == is_mod(s, target)
            IN  IF mt.err # "Ok" THEN mt
                ELSE IF ~mt.val THEN OkB(FALSE)
                ELSE is_admin(s, actor)
        ot == is_owner(s, target)
    IN  IF ot.err # "Ok" THEN ot
        ELSE IF ot.val THEN OkB(TRUE)
        ELSE IF is_admin(s, target).val
             THEN LET oa == is_owner(s, actor)
                  IN  IF oa.err # "Ok" THEN oa
                      ELSE IF ~oa.val THEN OkB(TRUE)
                      ELSE third
             ELSE third

\* a user outside the room counted as a holder of Regular
user_explicit_capabilities_stranger_regular(s, user_id) ==
    LET roles == IF user_id \in DOMAIN s.user_roles THEN s.user_roles[user_id]
                 ELSE {"Regular"}
    IN  IF \E role \in roles : role \notin DOMAIN s.policy.roles
        THEN [err |-> "RoleNotDefined", val |-> {}]
        ELSE [err |-> "Ok",
              val |-> UNION {Range(s.policy.roles[role].role_capabilities) : role \in roles}]

user_explicit_capabilities(s, user_id) ==
    LET roles == IF user_id \in DOMAIN s.user_roles THEN s.user_roles[user_id]
                 ELSE {"Outsider"}
    IN  IF \E role \in roles : role \notin DOMAIN s.policy.roles
        THEN [err |-> "RoleNotDefined", val |-> {}]
        ELSE [err |-> "Ok",
              val |-> UNION {Range(s.policy.roles[role].role_capabilities) : role \in roles}]

\* is_capable without the Admin fallback
is_capable_declared_only(s, user_id, capability) ==
    LET caps == user_explicit_capabilities(s, user_id)
    IN  IF caps.err # "Ok" THEN ErrB(caps.err)
        ELSE OkB(capability \in caps.val)

is_capable(s, user_id, capability) ==
    LET caps == user_explicit_capabilities(s, user_id)
    IN  IF caps.err # "Ok" THEN ErrB(caps.err)
        ELSE IF capability \in caps.val THEN OkB(TRUE)
        ELSE is_admin(s, user_id)

\* the keys of user_roles, sorted: user ids compare as byte strings
UserOrder == <<"@bob", "@carol", "@owner">>
joined_users(s) ==
    LET idx == {i \in DOMAIN UserOrder : UserOrder[i] \in DOMAIN s.user_roles}
        RECURSIVE Asc(_)
        Asc(I) == IF I = {} THEN <<>>
                  ELSE LET m == CHOOSE i \in I : \A j \in I : i <= j
                       IN  <<UserOrder[m]>> \o Asc(I \ {m})
    IN  Asc(idx)

-----------------------------------------------------------------------------
(* Role assignment *)

give_user_role(s, user_id, role) ==
    LET held == IF user_id \in DOMAIN s.user_roles THEN s.user_roles[user_id] ELSE {}
    IN  IF role \in held THEN ErrS("NothingToDo", s)
        ELSE OkS([s EXCEPT !.user_roles = (user_id :> (held \cup {role})) @@ @])

drop_user_role(s, user_id, role) ==
    IF user_id \notin DOMAIN s.user_roles THEN ErrS("UserNotInRoom", s)
    ELSE IF role \notin s.user_roles[user_id] THEN ErrS("NothingToDo", s)
    ELSE OkS([s EXCEPT !.user_roles[user_id] = @ \ {role}])

\* the loop of Kick and Ban: drop_user_role for every role of a clone of the
\* target's role set; the entry stays in the map with an empty set
DropAllRoles(s, target) ==
    IF target \notin DOMAIN s.user_roles THEN ErrS("UserNotInRoom", s)
    ELSE OkS([s EXCEPT !.user_roles[target] = {}])

-----------------------------------------------------------------------------
(* try_make_actions, one match arm per operator *)

\* the Kick arm without its protection test
ApplyKick_unprotected(s, user_id, a) ==
    LET cap == IF user_id # a.target THEN is_capable(s, user_id, Cap("Kick")) ELSE OkB(TRUE)
    IN  IF cap.err # "Ok" THEN ErrS(cap.err, s)
        ELSE IF ~cap.val THEN ErrS("NotCapable", s)
        ELSE DropAllRoles(s, a.target)

ApplyKick(s, user_id, a) ==
    LET cap == IF user_id # a.target THEN is_capable(s, user_id, Cap("Kick")) ELSE OkB(TRUE)
        prot == is_protected_from(s, user_id, a.target)
    IN  IF cap.err # "Ok" THEN ErrS(cap.err, s)
        ELSE IF ~cap.val THEN ErrS("NotCapable", s)
        ELSE IF prot.err # "Ok" THEN ErrS(prot.err, s)
        ELSE IF prot.val THEN ErrS("NotCapable", s)
        ELSE DropAllRoles(s, a.target)

\* the Ban arm recording the target, not the actor, as the creator of the ban
ApplyBan_creator_target(s, user_id, a) ==
    LET cap == IF user_id = a.target THEN OkB(FALSE) ELSE is_capable(s, user_id, Cap("Ban"))
        prot == is_protected_from(s, user_id, a.target)
        kicked == DropAllRoles(s, a.target)
    IN  IF cap.err # "Ok" THEN ErrS(cap.err, s)
        ELSE IF ~cap.val THEN ErrS("NotCapable", s)
        ELSE IF prot.err # "Ok" THEN ErrS(prot.err, s)
        ELSE IF prot.val THEN ErrS("NotCapable", s)
        ELSE IF kicked.err # "Ok" THEN kicked
        ELSE OkS([kicked.state EXCEPT !.users_banned =
                    (a.target :> [creator |-> a.target, reason |-> a.reason, until |-> a.until])
                    @@ @])

ApplyBan(s, user_id, a) ==
    LET cap == IF user_id = a.target THEN OkB(FALSE) ELSE is_capable(s, user_id, Cap("Ban"))
        prot == is_protected_from(s, user_id, a.target)
        kicked == DropAllRoles(s, a.target)
    IN  IF cap.err # "Ok" THEN ErrS(cap.err, s)
        ELSE IF ~cap.val THEN ErrS("NotCapable", s)
        ELSE IF prot.err # "Ok" THEN ErrS(prot.err, s)
        ELSE IF prot.val THEN ErrS("NotCapable", s)
        ELSE IF kicked.err # "Ok" THEN kicked
        ELSE OkS([kicked.state EXCEPT !.users_banned =
                    (a.target :> [creator |-> user_id, reason |-> a.reason, until |-> a.until])
                    @@ @])

\* the arm without the capability test
ApplyGiveRole_unchecked(s, user_id, a) == give_user_role(s, a.target, a.role)

ApplyGiveRole(s, user_id, a) ==
    LET self == IF a.target = user_id
                THEN is_capable(s, user_id, CapRole("GiveRoleSelf", a.role))
                ELSE OkB(FALSE)
        other == is_capable(s, user_id, CapRole("GiveRoleOther", a.role))
    IN  IF self.err # "Ok" THEN ErrS(self.err, s)
        ELSE IF other.err # "Ok" THEN ErrS(other.err, s)
        ELSE IF ~self.val /\ ~other.val THEN ErrS("NotCapable", s)
        ELSE give_user_role(s, a.target, a.role)

\* valid_to_self, then valid_to_other: capability && !protected, with the
\* short circuit of && and the early return of ?
ValidToOther(s, user_id, target, capability) ==
    LET cap == is_capable(s, user_id, capability)
        prot == is_protected_from(s, user_id, target)
    IN  IF cap.err # "Ok" THEN cap
        ELSE IF ~cap.val THEN OkB(FALSE)
        ELSE IF prot.err # "Ok" THEN prot
        ELSE OkB(~prot.val)

\* the DropRole arm asking for DropRoleOther even when the actor is the target
ApplyDropRole_capability_only(s, user_id, a) ==
    LET other == ValidToOther(s, user_id, a.target, CapRole("DropRoleOther", a.role))
    IN  IF other.err # "Ok" THEN ErrS(other.err, s)
        ELSE IF ~other.val THEN ErrS("NotCapable", s)
        ELSE drop_user_role(s, a.target, a.role)

ApplyDropRole(s, user_id, a) ==
    LET self == a.target = user_id
        other == ValidToOther(s, user_id, a.target, CapRole("DropRoleOther", a.role))
    IN  IF other.err # "Ok" THEN ErrS(other.err, s)
        ELSE IF ~self /\ ~other.val THEN ErrS("NotCapable", s)
        ELSE drop_user_role(s, a.target, a.role)

\* the SendMessage arm without its capability test
ApplySendMessage_unchecked(s, user_id, a) == OkS(s)

ApplySendMessage(s, user_id, a) ==
    LET cap == is_capable(s, user_id, CapSend(a.message_type))
    IN  IF cap.err # "Ok" THEN ErrS(cap.err, s)
        ELSE IF ~cap.val THEN ErrS("NotCapable", s)
        ELSE OkS(s)

\* EditMessage and DeleteMessage: the same arm with the Self and Other capability
ApplyMessageChange(s, user_id, a, selfCap, otherCap) ==
    LET self == IF a.target = user_id THEN is_capable(s, user_id, selfCap) ELSE OkB(FALSE)
        other == ValidToOther(s, user_id, a.target, otherCap)
    IN  IF self.err # "Ok" THEN ErrS(self.err, s)
        ELSE IF other.err # "Ok" THEN ErrS(other.err, s)
        ELSE IF ~self.val /\ ~other.val THEN ErrS("NotCapable", s)
        ELSE OkS(s)

ApplyEditMessage(s, user_id, a) ==
    ApplyMessageChange(s, user_id, a, Cap("EditMessageSelf"), Cap("EditMessageOther"))

ApplyDeleteMessage(s, user_id, a) ==
    ApplyMessageChange(s, user_id, a, Cap("DeleteMessageSelf"), Cap("DeleteMessageOther"))

\* retain(|x| x != v) on a Vec
Without(seq, v) == SelectSeq(seq, LAMBDA x : x # v)

ApplyRoleChange(s, target, change) ==
    LET roles == s.policy.roles
        defined == target \in DOMAIN roles
        info == roles[target]
        Set(newInfo) == OkS([s EXCEPT !.policy.roles[target] = newInfo])
    IN  IF change.kind = "New"
        THEN IF ~is_custom(target) \/ defined THEN ErrS("RoleAlreadyExists", s)
             ELSE OkS([s EXCEPT !.policy.roles = (target :> change.info) @@ @])
        ELSE IF change.kind = "Remove"
        THEN IF \E u \in DOMAIN s.user_roles : target \in s.user_roles[u]
             THEN ErrS("RoleInUse", s)
             ELSE OkS([s EXCEPT !.policy.roles =
                          [r \in DOMAIN roles \ {target} |-> roles[r]]])
        ELSE IF ~defined THEN ErrS("RoleNotDefined", s)
        ELSE CASE change.kind = "ChangeName" ->
               IF info.role_name = change.value THEN ErrS("NothingToDo", s)
               ELSE Set([info EXCEPT !.role_name = change.value])
          [] change.kind = "ChangeDescription" ->
               IF info.role_description = change.value THEN ErrS("NothingToDo", s)
               ELSE Set([info EXCEPT !.role_description = change.value])
          [] change.kind = "AddCapability" ->
               IF change.value \in Range(info.role_capabilities) THEN ErrS("NothingToDo", s)
               ELSE Set([info EXCEPT !.role_capabilities = Append(@, change.value)])
          [] change.kind = "RemoveCapability" ->
               IF change.value \notin Range(info.role_capabilities) THEN ErrS("NothingToDo", s)
               ELSE Set([info EXCEPT !.role_capabilities = Without(@, change.value)])
          [] change.kind = "AddDependency" ->
               IF change.value \in Range(info.dependencies) THEN ErrS("NothingToDo", s)
               ELSE Set([info EXCEPT !.dependencies = Append(@, change.value)])
          [] change.kind = "RemoveDependency" ->
               IF change.value \notin Range(info.dependencies) THEN ErrS("NothingToDo", s)
               ELSE Set([info EXCEPT !.dependencies = Without(@, change.value)])
          [] change.kind = "SetMin" ->
               IF info.min = change.value THEN ErrS("NothingToDo", s)
               ELSE Set([info EXCEPT !.min = change.value])
          [] change.kind = "SetMax" ->
               IF info.max = change.value THEN ErrS("NothingToDo", s)
               ELSE Set([info EXCEPT !.max = change.value])

\* the arm without the test of the actor's Admin role
ApplyChangePolicyRole_unchecked(s, user_id, a) == ApplyRoleChange(s, a.target, a.action)

ApplyChangePolicyRole(s, user_id, a) ==
    IF ~is_admin(s, user_id).val THEN ErrS("NotCapable", s)
    ELSE ApplyRoleChange(s, a.target, a.action)

\* one iteration of the loop over the batch
ApplyAction(s, user_id, a) ==
    CASE a.kind = "Knock" -> ErrS("Panic", s)
      [] a.kind = "Kick" -> ApplyKick(s, user_id, a)
      [] a.kind = "Ban" -> ApplyBan(s, user_id, a)
      [] a.kind = "GiveRole" -> ApplyGiveRole(s, user_id, a)
      [] a.kind = "DropRole" -> ApplyDropRole(s, user_id, a)
      [] a.kind = "SendMessage" -> ApplySendMessage(s, user_id, a)
      [] a.kind = "EditMessage" -> ApplyEditMessage(s, user_id, a)
      [] a.kind = "DeleteMessage" -> ApplyDeleteMessage(s, user_id, a)
      [] a.kind = "ChangePolicyRole" -> ApplyChangePolicyRole(s, user_id, a)
      [] a.kind = "ChangePolicyProperty" -> ErrS("Panic", s)

\* the for loop: stops at the first action that fails; done counts the
\* actions applied before that
RECURSIVE ApplyActions(_, _, _, _)
ApplyActions(s, user_id, actions, done) ==
    IF done = Len(actions) THEN [err |-> "Ok", state |-> s, done |-> done]
    ELSE LET r == ApplyAction(s, user_id, actions[done + 1])
         IN  IF r.err # "Ok" THEN [err |-> r.err, state |-> s, done |-> done]
             ELSE ApplyActions(r.state, user_id, actions, done + 1)

\* try_make_actions without the check of the actor's ban entry
ActorBanCheck_skipped(s, user_id) == "Ok"

\* the check of the actor's own ban entry that precedes the loop
ActorBanCheck(s, user_id) ==
    IF user_id \notin DOMAIN s.users_banned THEN "Ok"
    ELSE IF s.users_banned[user_id].until = None THEN "Banned"
    ELSE "Panic"

try_make_actions(s, user_id, actions) ==
    IF actions = <<>> THEN [err |-> "Panic", state |-> s, done |-> 0]
    ELSE IF ActorBanCheck(s, user_id) # "Ok"
         THEN [err |-> ActorBanCheck(s, user_id), state |-> s, done |-> 0]
         ELSE ApplyActions(s, user_id, actions, 0)

-----------------------------------------------------------------------------
(* consistency_checks.  The role table and both user maps are HashMaps, so   *)
(* the loops visit their entries in an arbitrary order and return at the     *)
(* first failure they meet: each loop contributes the set of errors some     *)
(* order makes it return.                                                    *)

\* the six assert!s
StructuralRolesDefined(s) == StructuralRoles \subseteq DOMAIN s.policy.roles

\* role_counts: the number of users holding the role
RoleCount(s, role) == Cardinality({u \in DOMAIN s.user_roles : role \in s.user_roles[u]})

\* the first loop without the dependency test
UserRoleError_undefined_only(s, u, role) ==
    IF role \notin DOMAIN s.policy.roles THEN "RoleNotDefined" ELSE "Ok"

\* first loop: what one (user, role) pair makes it return
UserRoleError(s, u, role) ==
    IF role \notin DOMAIN s.policy.roles THEN "RoleNotDefined"
    ELSE IF \E d \in Range(s.policy.roles[role].dependencies) : d \notin s.user_roles[u]
    THEN "RoleDependencyViolated"
    ELSE "Ok"

UserRoleErrors(s) ==
    UNION {{UserRoleError(s, u, role) : role \in s.user_roles[u]} : u \in DOMAIN s.user_roles}
    \ {"Ok"}

\* role_capabilities and dependencies sorted and deduplicated
Canonical(info) ==
    [info EXCEPT !.role_capabilities = SortDedupCaps(Range(@)),
                 !.dependencies = SortDedupRoles(Range(@))]

dependencies_valid(role, info) ==
    CASE role = "Outsider" -> info.dependencies = <<>>
      [] role = "Restricted" -> info.dependencies = <<>>
      [] role = "Regular" -> info.dependencies = <<"Restricted">>
      [] role = "Moderator" -> info.dependencies = <<"Regular">>
      [] role = "Admin" -> info.dependencies = <<"Moderator">>
      [] role = "Owner" -> info.dependencies = <<"Admin">>
      [] OTHER -> /\ "Outsider" \notin Range(info.dependencies)
                  /\ "Restricted" \notin Range(info.dependencies)

\* the second loop testing min but not max
RoleError_min_only(s, role) ==
    LET info == Canonical(s.policy.roles[role])
        caps == Range(info.role_capabilities)
        count == RoleCount(s, role)
    IN  IF role = "Outsider" /\ \E c \in caps : c.kind \notin {"Knock", "GiveRoleSelf"}
        THEN "SpecialRole"
        ELSE IF role \in {"Admin", "Owner"} /\ caps # {} THEN "SpecialRole"
        ELSE IF ~dependencies_valid(role, info) THEN "InvalidRoleDependencies"
        ELSE IF Len(info.role_name) > MaxStrLen THEN "StringTooLong"
        ELSE IF Len(info.role_description) > MaxStrLen THEN "StringTooLong"
        ELSE IF role \in Range(info.dependencies) THEN "InvalidRoleDependencies"
        ELSE IF count < info.min THEN "RoleMinMaxViolated"
        ELSE "Ok"

\* second loop: the checks of one role, in the order of the loop body
RoleError(s, role) ==
    LET info == Canonical(s.policy.roles[role])
        caps == Range(info.role_capabilities)
        count == RoleCount(s, role)
    IN  IF role = "Outsider" /\ \E c \in caps : c.kind \notin {"Knock", "GiveRoleSelf"}
        THEN "SpecialRole"
        ELSE IF role \in {"Admin", "Owner"} /\ caps # {} THEN "SpecialRole"
        ELSE IF ~dependencies_valid(role, info) THEN "InvalidRoleDependencies"
        ELSE IF Len(info.role_name) > MaxStrLen THEN "StringTooLong"
        ELSE IF Len(info.role_description) > MaxStrLen THEN "StringTooLong"
        ELSE IF role \in Range(info.dependencies) THEN "InvalidRoleDependencies"
        ELSE IF count < info.min \/ \E max \in info.max : count > max
        THEN "RoleMinMaxViolated"
        ELSE "Ok"

RoleErrors(s) == {RoleError(s, role) : role \in DOMAIN s.policy.roles} \ {"Ok"}

\* consistency_checks keeping the users whose role set is empty
RetainMembers_keep_all(user_roles) == user_roles

\* user_roles.retain(|_, roles| !roles.is_empty())
RetainMembers(user_roles) ==
    [u \in {v \in DOMAIN user_roles : user_roles[v] # {}} |-> user_roles[u]]

\* the third loop without the membership test
BanErrors_expiry_only(s) ==
    {"Panic" : u \in {v \in DOMAIN s.users_banned : s.users_banned[v].until # None}}

\* third loop: a ban with an expiry is todo!(), a banned member is an error
BanErrors(s) ==
    {"Panic" : u \in {v \in DOMAIN s.users_banned : s.users_banned[v].until # None}}
    \cup {"Banned" : u \in {v \in DOMAIN s.users_banned :
                              /\ s.users_banned[v].until = None
                              /\ v \in DOMAIN RetainMembers(s.user_roles)}}

\* the state wrapped in Ok(VerifiedRoomState(self))
Verified(s) ==
    [s EXCEPT !.policy.roles = [r \in DOMAIN @ |-> Canonical(@[r])],
              !.user_roles = RetainMembers(@)]

\* the results consistency_checks can return for s
consistency_checks(s) ==
    IF ~StructuralRolesDefined(s) THEN {ErrS("Panic", s)}
    ELSE IF UserRoleErrors(s) # {} THEN {ErrS(e, s) : e \in UserRoleErrors(s)}
    ELSE IF RoleErrors(s) # {} THEN {ErrS(e, s) : e \in RoleErrors(s)}
    ELSE IF BanErrors(s) # {} THEN {ErrS(e, s) : e \in BanErrors(s)}
    ELSE {OkS(Verified(s))}

join_room_actions(s, user_id) ==
    IF "Outsider" \notin DOMAIN s.policy.roles THEN [err |-> "RoleNotDefined", val |-> <<>>]
    ELSE LET caps == s.policy.roles["Outsider"].role_capabilities
             gives == SelectSeq(caps, LAMBDA c : c.kind = "GiveRoleSelf")
             actions == [i \in DOMAIN gives |->
                           [kind |-> "GiveRole", target |-> user_id, role |-> gives[i].arg]]
         IN  IF actions = <<>> THEN [err |-> "NotCapable", val |-> <<>>]
             ELSE [err |-> "Ok", val |-> actions]

-----------------------------------------------------------------------------
(* VerifiedRoomState *)

\* VerifiedRoomState::new_from_template: consistency_checks().expect(..)
VerifiedFromTemplate(owner, t) ==
    IF TemplateTodo(t) THEN {}
    ELSE
    {c.state : c \in {d \in consistency_checks(NewFromTemplate(owner, t)) : d.err = "Ok"}}

\* make_actions running try_make_actions on the committed state, not on a clone
make_actions_in_place(s, user_id, actions) ==
    LET tried == try_make_actions(s, user_id, actions)
    IN  IF tried.err # "Ok"
        THEN {[err |-> tried.err, stage |-> "try_make_actions", state |-> tried.state]}
        ELSE {IF c.err = "Ok"
              THEN [err |-> "Ok", stage |-> "committed", state |-> c.state]
              ELSE [err |-> c.err, stage |-> "consistency_checks", state |-> tried.state]
              : c \in consistency_checks(tried.state)}

\* make_actions running consistency_checks after every action of the batch
make_actions_checking_each_action(s, user_id, actions) ==
    LET tried == try_make_actions(s, user_id, actions)
        after(i) == ApplyActions(s, user_id, SubSeq(actions, 1, i), 0).state
        broken == {i \in 1..Len(actions) :
                      \A c \in consistency_checks(after(i)) : c.err # "Ok"}
    IN  IF tried.err # "Ok"
        THEN {[err |-> tried.err, stage |-> "try_make_actions", state |-> s]}
        ELSE IF broken # {}
        THEN LET first == CHOOSE i \in broken : \A k \in broken : i <= k
             IN  {[err |-> c.err, stage |-> "consistency_checks", state |-> s]
                  : c \in consistency_checks(after(first))}
        ELSE {[err |-> "Ok", stage |-> "committed", state |-> c.state]
              : c \in consistency_checks(tried.state)}

\* VerifiedRoomState::make_actions on the committed state s: the results it
\* can return, each with the state committed afterwards.  An error of
\* try_make_actions or of consistency_checks returns before *self is assigned.
make_actions(s, user_id, actions) ==
    LET tried == try_make_actions(s, user_id, actions)
    IN  IF tried.err # "Ok"
        THEN {[err |-> tried.err, stage |-> "try_make_actions", state |-> s]}
        ELSE {IF c.err = "Ok"
              THEN [err |-> "Ok", stage |-> "committed", state |-> c.state]
              ELSE [err |-> c.err, stage |-> "consistency_checks", state |-> s]
              : c \in consistency_checks(tried.state)}

-----------------------------------------------------------------------------
(* The inputs of the calls *)

KickActions(targets) == {[kind |-> "Kick", target |-> t] : t \in targets}

BanActions(targets, untils) ==
    {[kind |-> "Ban", target |-> t, reason |-> "Spam", until |-> w] :
        t \in targets, w \in untils}

GiveRoleActions(targets, roles) ==
    {[kind |-> "GiveRole", target |-> t, role |-> r] : t \in targets, r \in roles}

DropRoleActions(targets, roles) ==
    {[kind |-> "DropRole", target |-> t, role |-> r] : t \in targets, r \in roles}

SendMessageActions(types) == {[kind |-> "SendMessage", message_type |-> m] : m \in types}

EditMessageActions(targets) == {[kind |-> "EditMessage", target |-> t] : t \in targets}

DeleteMessageActions(targets) == {[kind |-> "DeleteMessage", target |-> t] : t \in targets}

ChangePolicyRoleActions(roles, changes) ==
    {[kind |-> "ChangePolicyRole", target |-> r, action |-> c] : r \in roles, c \in changes}

Change(kind, value) == [kind |-> kind, value |-> value]

\* all sequences over A of length 1..n
RECURSIVE SeqsUpTo(_, _)
SeqsUpTo(A, n) ==
    IF n = 0 THEN {}
    ELSE LET shorter == SeqsUpTo(A, n - 1)
         IN  {<<a>> : a \in A} \cup shorter \cup {Append(b, a) : b \in shorter, a \in A}

NoCall == [user_id |-> "-", actions |-> <<>>]
NoWire == [stage |-> "-"]
NoResult == [err |-> "-", stage |-> "-"]

-----------------------------------------------------------------------------
(* The state machine *)

InitFrom(templates) ==
    /\ template \in templates
    /\ room \in VerifiedFromTemplate(OwnerId, template)
    /\ pc = "idle"
    /\ call = NoCall
    /\ result = NoResult
    /\ before = room
    /\ wire = NoWire

\* a caller invokes make_actions(user_id, actions) on the verified state
MakeActions(user_id, actions) ==
    /\ pc = "idle"
    /\ \E r \in make_actions(room, user_id, actions) :
         /\ room' = r.state
         /\ result' = [err |-> r.err, stage |-> r.stage]
    /\ call' = [user_id |-> user_id, actions |-> actions]
    /\ before' = room
    /\ pc' = "returned"
    /\ UNCHANGED <<template, wire>>

\* the caller takes the result; the room is ready for the next call
Return ==
    /\ pc = "returned"
    /\ pc' = "idle"
    /\ call' = NoCall
    /\ result' = NoResult
    /\ before' = room
    /\ UNCHANGED <<room, template, wire>>

\* make_actions is called by any of `users` with any of `batches`
Call(users, batches) ==
    /\ pc = "idle"
    /\ \E user_id \in users, actions \in batches : MakeActions(user_id, actions)

-----------------------------------------------------------------------------
(* Spec: a Public room, three users, every membership and message action   *)
(* as a one-action batch, and longer batches over CoreActions              *)

MemberRoles == {"Restricted", "Regular", "Moderator", "Admin", "Owner"}

SingleActions ==
    KickActions(UserIds) \cup BanActions(UserIds, {None, Some(1)})
    \cup GiveRoleActions(UserIds, MemberRoles \cup {"Custom1"})
    \cup DropRoleActions(UserIds, MemberRoles)
    \cup SendMessageActions({"Reaction", "Image"})
    \cup EditMessageActions(UserIds) \cup DeleteMessageActions(UserIds)
    \cup {[kind |-> "Knock"], [kind |-> "ChangePolicyProperty"]}
    \cup ChangePolicyRoleActions({"Regular"}, {Change("SetMax", Some(MaxCount)),
                                               Change("SetMax", None)})

CoreActions ==
    KickActions({"@owner", "@bob"})
    \cup GiveRoleActions({"@bob"}, {"Restricted", "Regular", "Moderator", "Custom1"})
    \cup BanActions({"@carol"}, {None})
    \cup DropRoleActions({"@bob"}, {"Restricted"})
    \cup ChangePolicyRoleActions({"Regular"}, {Change("SetMax", Some(MaxCount))})

Batches == {<<>>} \cup {<<a>> : a \in SingleActions} \cup SeqsUpTo(CoreActions, MaxBatch)

Init == InitFrom({"Public"})

Next ==
    \/ Call(UserIds, Batches)
    \/ Return

Spec == Init /\ [][Next]_vars

-----------------------------------------------------------------------------
(* SpecMinMax: the owner and one more user, membership changes and edits   *)
(* of the Owner role's min and max                                          *)

TwoUsers == {"@owner", "@bob"}

Counts == 0..MaxCount

MinMaxChanges ==
    {Change("SetMin", n) : n \in Counts}
    \cup {Change("SetMax", Some(n)) : n \in Counts} \cup {Change("SetMax", None)}

MinMaxSingleActions ==
    KickActions(TwoUsers)
    \cup GiveRoleActions(TwoUsers, MemberRoles) \cup DropRoleActions(TwoUsers, MemberRoles)
    \cup ChangePolicyRoleActions({"Owner"}, MinMaxChanges)

MinMaxCoreActions ==
    KickActions(TwoUsers)
    \cup GiveRoleActions({"@bob"}, {"Admin", "Owner"})
    \cup ChangePolicyRoleActions({"Owner"}, {Change("SetMin", 0), Change("SetMax", None)})

MinMaxBatches ==
    {<<a>> : a \in MinMaxSingleActions} \cup SeqsUpTo(MinMaxCoreActions, MaxBatch)

NextMinMax ==
    \/ Call(TwoUsers, MinMaxBatches)
    \/ Return

SpecMinMax == Init /\ [][NextMinMax]_vars

-----------------------------------------------------------------------------
(* SpecDeps: the owner and one more user, membership changes and edits of  *)
(* a custom role and its dependencies                                       *)

CustomInfo(dependencies) ==
    RoleInfo("Artist", "Can post art", <<CapSend("Image"), CapSend("Image")>>,
             dependencies, 0, None)

DepsChanges ==
    {[kind |-> "New", info |-> CustomInfo(<<"Regular">>)],
     [kind |-> "New", info |-> CustomInfo(<<"Moderator", "Regular", "Moderator">>)],
     [kind |-> "Remove"]}
    \cup {Change("AddDependency", d) : d \in {"Regular", "Moderator", "Custom1"}}
    \cup {Change("RemoveDependency", d) : d \in {"Regular", "Moderator"}}

DepsRoles == {"Restricted", "Regular", "Moderator", "Custom1"}

DepsSingleActions ==
    KickActions(TwoUsers)
    \cup GiveRoleActions(TwoUsers, DepsRoles) \cup DropRoleActions(TwoUsers, DepsRoles)
    \cup ChangePolicyRoleActions({"Custom1"}, DepsChanges)
    \cup ChangePolicyRoleActions({"Regular"}, {Change("AddDependency", "Moderator")})

DepsCoreActions ==
    GiveRoleActions({"@bob"}, DepsRoles)
    \cup DropRoleActions({"@bob"}, {"Regular"})
    \cup ChangePolicyRoleActions({"Custom1"}, {[kind |-> "New", info |-> CustomInfo(<<"Regular">>)],
                                               Change("AddDependency", "Moderator")})

DepsBatches ==
    {<<a>> : a \in DepsSingleActions} \cup SeqsUpTo(DepsCoreActions, MaxBatch)

NextDeps ==
    \/ Call(TwoUsers, DepsBatches)
    \/ Return

SpecDeps == Init /\ [][NextDeps]_vars

-----------------------------------------------------------------------------
(* SpecTemplates: a room of every template, three users, joining through    *)
(* join_room_actions, membership and message batches, and edits of the      *)
(* Outsider role                                                             *)

OutsiderChanges ==
    {Change("AddCapability", CapRole("GiveRoleSelf", "Restricted")),
     Change("AddCapability", CapRole("GiveRoleSelf", "Regular")),
     Change("RemoveCapability", CapRole("GiveRoleSelf", "Restricted"))}

TemplateSingleActions ==
    KickActions(UserIds) \cup BanActions({"@carol"}, {None})
    \cup GiveRoleActions({"@bob", "@carol"}, {"Restricted", "Regular", "Moderator", "Admin"})
    \cup SendMessageActions(MessageType)
    \cup ChangePolicyRoleActions({"Outsider"}, OutsiderChanges)
    \cup {[kind |-> "Knock"]}

TemplateCoreActions ==
    GiveRoleActions({"@bob", "@carol"}, {"Restricted", "Regular"})

TemplateBatches ==
    {<<a>> : a \in TemplateSingleActions} \cup SeqsUpTo(TemplateCoreActions, MaxBatch)

InitTemplates == InitFrom(PolicyTemplate)

\* a user computes join_room_actions on the verified state and submits the batch
Join(user_id) ==
    /\ pc = "idle"
    /\ join_room_actions(room, user_id).err = "Ok"
    /\ MakeActions(user_id, join_room_actions(room, user_id).val)

NextTemplates ==
    \/ \E user_id \in UserIds : Join(user_id)
    \/ Call(UserIds, TemplateBatches)
    \/ Return

SpecTemplates == InitTemplates /\ [][NextTemplates]_vars

-----------------------------------------------------------------------------
(* SpecPolicy: the owner and one more user, edits of the Outsider role's    *)
(* max, removal of structural and custom roles, and role grants             *)

PolicySingleActions ==
    ChangePolicyRoleActions({"Outsider"}, {Change("SetMax", None), Change("SetMax", Some(0)),
                                           Change("SetMax", Some(MaxCount))})
    \cup ChangePolicyRoleActions({"Outsider", "Regular", "Custom1"}, {[kind |-> "Remove"]})
    \cup ChangePolicyRoleActions({"Custom1"}, {[kind |-> "New", info |-> CustomInfo(<<>>)]})
    \cup GiveRoleActions({"@bob"}, {"Outsider", "Restricted", "Custom1"})
    \cup KickActions({"@bob"})

PolicyCoreActions ==
    ChangePolicyRoleActions({"Outsider"}, {Change("SetMax", None), [kind |-> "Remove"]})
    \cup ChangePolicyRoleActions({"Custom1"}, {[kind |-> "Remove"]})
    \cup GiveRoleActions({"@bob"}, {"Outsider", "Restricted"})

PolicyBatches ==
    {<<a>> : a \in PolicySingleActions} \cup SeqsUpTo(PolicyCoreActions, MaxBatch)

NextPolicy ==
    \/ Call(TwoUsers, PolicyBatches)
    \/ Return

SpecPolicy == Init /\ [][NextPolicy]_vars

-----------------------------------------------------------------------------
(* SpecChecks: the owner and one more user, batches whose final state can   *)
(* break several rules of consistency_checks at once                        *)

ChecksCoreActions ==
    KickActions({"@owner"})
    \cup GiveRoleActions({"@bob"}, {"Restricted", "Regular", "Moderator"})
    \cup ChangePolicyRoleActions({"Regular"}, {Change("AddDependency", "Moderator")})
    \cup ChangePolicyRoleActions({"Custom1"},
                                 {[kind |-> "New", info |-> CustomInfo(<<"Regular">>)],
                                  [kind |-> "New", info |-> CustomInfo(<<"Custom1">>)]})
    \cup BanActions({"@bob"}, {None})

ChecksBatches == SeqsUpTo(ChecksCoreActions, MaxBatch)

NextChecks ==
    \/ Call(TwoUsers, ChecksBatches)
    \/ Return

SpecChecks == Init /\ [][NextChecks]_vars

-----------------------------------------------------------------------------
(* tls.rs: the length-prefixed encoding of a BTreeMap<u64, TlsString>,     *)
(* the instance the tests of the btreemap module exercise.  Bytes are      *)
(* numbers 0..255, a byte string is a sequence of them, and a map is a     *)
(* function from its keys to the bytes of its strings.                     *)

WireOk == "Ok"

\* the number a big-endian byte string stands for
RECURSIVE BigEndian(_)
BigEndian(bytes) ==
    IF bytes = <<>> THEN 0
    ELSE 256 * BigEndian(SubSeq(bytes, 1, Len(bytes) - 1)) + bytes[Len(bytes)]

\* vlen::write_length: the variable-length integer in front of a vector;
\* the two high bits of its first byte give the width
write_length(content_length) ==
    IF content_length < 64
    THEN [err |-> WireOk, bytes |-> <<content_length>>]
    ELSE IF content_length < 16384
    THEN [err |-> WireOk,
          bytes |-> <<64 + content_length \div 256, content_length % 256>>]
    ELSE IF content_length < 2^30
    THEN [err |-> WireOk,
          bytes |-> <<128 + content_length \div 2^24,
                      (content_length \div 2^16) % 256,
                      (content_length \div 2^8) % 256,
                      content_length % 256>>]
    ELSE [err |-> "InvalidVectorLength", bytes |-> <<>>]

\* vlen::read_length: the length, the bytes it took, and what follows
read_length(bytes) ==
    LET fail(e) == [err |-> e, len |-> 0, len_len |-> 0, rest |-> bytes]
    IN  IF bytes = <<>> THEN fail("EndOfStream")
        ELSE LET len_len == 2^(bytes[1] \div 64)
             IN  IF len_len = 8 THEN fail("InvalidVectorLength")
                 ELSE IF Len(bytes) < len_len THEN fail("EndOfStream")
                 ELSE [err |-> WireOk,
                       len |-> BigEndian(<<bytes[1] % 64>>
                                            \o SubSeq(bytes, 2, len_len)),
                       len_len |-> len_len,
                       rest |-> SubSeq(bytes, len_len + 1, Len(bytes))]

\* a key: u64 is eight bytes, most significant first (the model's keys fit
\* the low four)
U64Len == 8

U64Bytes(n) ==
    [i \in 1..U64Len |-> IF i > 4 THEN (n \div 256^(U64Len - i)) % 256 ELSE 0]

U64FromBytes(bytes) ==
    IF Len(bytes) < U64Len
    THEN [err |-> "EndOfStream", value |-> 0, rest |-> bytes]
    ELSE [err |-> WireOk,
          value |-> BigEndian(SubSeq(bytes, 1, U64Len)),
          rest |-> SubSeq(bytes, U64Len + 1, Len(bytes))]

\* String::from_utf8 on the bytes the model writes: every byte below 128
\* is a character of its own
from_utf8(bytes) == \A i \in DOMAIN bytes : bytes[i] < 128

TlsStringLen_one_byte_length(string) == 1 + Len(string)

\* Size for TlsString: the bytes of the string behind their length
TlsStringLen(string) == Len(write_length(Len(string)).bytes) + Len(string)

\* Serialize for TlsString
TlsStringBytes(string) == write_length(Len(string)).bytes \o string

\* DeserializeBytes for TlsString
TlsStringFromBytes(bytes) ==
    LET head == read_length(bytes)
        fail(e) == [err |-> e, value |-> <<>>, rest |-> bytes]
    IN  IF head.err # WireOk THEN fail(head.err)
        ELSE IF Len(head.rest) < head.len THEN fail("EndOfStream")
        ELSE LET string == SubSeq(head.rest, 1, head.len)
             IN  IF ~from_utf8(string) THEN fail("DecodingError")
                 ELSE [err |-> WireOk,
                       value |-> string,
                       rest |-> SubSeq(head.rest, head.len + 1, Len(head.rest))]

\* BTreeMap::new() and BTreeMap::insert
EmptyMap == [k \in {} |-> <<>>]

MapInsert(map, key, value) ==
    [k \in DOMAIN map \cup {key} |-> IF k = key THEN value ELSE map[k]]

\* BTreeMap::iter: the keys in ascending order
RECURSIVE KeysInOrder(_)
KeysInOrder(keys) ==
    IF keys = {} THEN <<>>
    ELSE LET least == CHOOSE k \in keys : \A other \in keys : k <= other
         IN  <<least>> \o KeysInOrder(keys \ {least})

\* the sum over the pairs of the map of their serialized lengths
RECURSIVE ContentLength(_, _)
ContentLength(map, keys) ==
    IF keys = <<>> THEN 0
    ELSE U64Len + TlsStringLen(map[Head(keys)]) + ContentLength(map, Tail(keys))

\* btreemap::tls_serialized_len
tls_serialized_len(map) ==
    LET content_len == ContentLength(map, KeysInOrder(DOMAIN map))
        head == write_length(content_len)
        len_len == IF head.err = WireOk THEN Len(head.bytes) ELSE 0
    IN  content_len + len_len

\* the loop of tls_serialize: each key and its value, in key order
RECURSIVE WritePairs(_, _)
WritePairs(map, keys) ==
    IF keys = <<>> THEN <<>>
    ELSE U64Bytes(Head(keys)) \o TlsStringBytes(map[Head(keys)])
            \o WritePairs(map, Tail(keys))

\* btreemap::tls_serialize: the bytes given to the writer and the length
\* returned
tls_serialize(map) ==
    LET keys == KeysInOrder(DOMAIN map)
        content_length == ContentLength(map, keys)
        head == write_length(content_length)
        pairs == WritePairs(map, keys)
    IN  IF head.err # WireOk
        THEN [err |-> head.err, len |-> 0, bytes |-> <<>>]
        ELSE IF Len(pairs) # content_length
        THEN [err |-> "LibraryError", len |-> 0, bytes |-> head.bytes \o pairs]
        ELSE [err |-> WireOk,
              len |-> content_length + Len(head.bytes),
              bytes |-> head.bytes \o pairs]

\* the loop of tls_deserialize_bytes: a key and a value are read from what
\* is left of the input for as long as fewer than len bytes were counted
RECURSIVE ReadPairs(_, _, _, _, _)
ReadPairs(bytes, read, len_len, len, decoded) ==
    IF ~(read - len_len < len)
    THEN [err |-> WireOk, map |-> decoded, rest |-> bytes]
    ELSE LET key == U64FromBytes(bytes)
         IN  IF key.err # WireOk
             THEN [err |-> key.err, map |-> EmptyMap, rest |-> bytes]
             ELSE LET value == TlsStringFromBytes(key.rest)
                  IN  IF value.err # WireOk
                      THEN [err |-> value.err, map |-> EmptyMap, rest |-> bytes]
                      ELSE ReadPairs(value.rest,
                                     read + U64Len + TlsStringLen(value.value),
                                     len_len, len,
                                     MapInsert(decoded, key.value, value.value))

\* btreemap::tls_deserialize_bytes: the map and the bytes after it
tls_deserialize_bytes(bytes) ==
    LET head == read_length(bytes)
    IN  IF head.err # WireOk
        THEN [err |-> head.err, map |-> EmptyMap, rest |-> bytes]
        ELSE IF head.len = 0
        THEN [err |-> WireOk, map |-> EmptyMap, rest |-> head.rest]
        ELSE ReadPairs(head.rest, head.len_len, head.len_len, head.len, EmptyMap)

-----------------------------------------------------------------------------
(* SpecTls: a map goes through tls_serialize, the declared length in front *)
(* of the bytes may be replaced on the way, and tls_deserialize_bytes      *)
(* reads what arrives                                                      *)

\* keys of one and of two significant bytes
WireKeys == {1, 3, 258}

\* the empty string, "hi", and a string too long for a one-byte length
WireStrings == {<<>>, <<104, 105>>, [i \in 1..MaxValueLen |-> 97]}

WireMaps == UNION {[keys -> WireStrings] : keys \in SUBSET WireKeys}

NoBytes == [err |-> "-", len |-> 0, bytes |-> <<>>]
NoMap == [err |-> "-", map |-> EmptyMap, rest |-> <<>>]

InitTls ==
    /\ template = "Public"
    /\ room \in VerifiedFromTemplate(OwnerId, template)
    /\ pc = "idle"
    /\ call = NoCall
    /\ result = NoResult
    /\ before = room
    /\ \E map \in WireMaps :
         wire = [stage |-> "map", map |-> map, written |-> NoBytes,
                 declared |-> {}, bytes |-> <<>>, read |-> NoMap]

\* tls_serialize(&map, &mut buf)
Serialize ==
    /\ wire.stage = "map"
    /\ LET written == tls_serialize(wire.map)
       IN  wire' = [wire EXCEPT !.stage = "written",
                                !.written = written,
                                !.bytes = written.bytes]
    /\ UNCHANGED <<room, template, pc, call, result, before>>

\* the bytes arrive with another declared length in front of the same pairs
Redeclare(len) ==
    /\ wire.stage = "written"
    /\ wire.written.err = WireOk
    /\ LET head == read_length(wire.bytes)
       IN  /\ len # head.len
           /\ wire' = [wire EXCEPT !.stage = "redeclared",
                                   !.declared = Some(len),
                                   !.bytes = write_length(len).bytes \o head.rest]
    /\ UNCHANGED <<room, template, pc, call, result, before>>

\* tls_deserialize_bytes(&buf)
Deserialize ==
    /\ wire.stage \in {"written", "redeclared"}
    /\ wire' = [wire EXCEPT !.stage = "read",
                            !.read = tls_deserialize_bytes(wire.bytes)]
    /\ UNCHANGED <<room, template, pc, call, result, before>>

\* every declared length up to one past the content of the largest map
DeclaredLengths == 0..(tls_serialized_len([k \in WireKeys |-> [i \in 1..MaxValueLen |-> 97]]))

NextTls ==
    \/ Serialize
    \/ \E len \in DeclaredLengths : Redeclare(len)
    \/ Deserialize

SpecTls == InitTls /\ [][NextTls]_vars

-----------------------------------------------------------------------------
(* Properties *)

Holds(s, u, role) == u \in DOMAIN s.user_roles /\ role \in s.user_roles[u]

RolesOf(s, u) == IF u \in DOMAIN s.user_roles THEN s.user_roles[u] ELSE {}

PermBanned(s, u) == u \in DOMAIN s.users_banned /\ s.users_banned[u].until = None

\* try_make_actions of the last call, on the state it started from
Tried == try_make_actions(before, call.user_id, call.actions)

\* the loop of the last call up to, not including, its i-th action
PrefixRun(i) == ApplyActions(before, call.user_id, SubSeq(call.actions, 1, i - 1), 0)

\* C1: when make_actions returns an error (a failing action, a consistency
\* violation or an abort), the committed state is the state before the call.
C1_Atomicity == (pc = "returned" /\ result.err # "Ok") => room = before

\* a batch failed at its second action after the first had changed the working copy
C1_Witness ==
    /\ pc = "returned"
    /\ result.err \notin {"Ok", "Panic"}
    /\ result.stage = "try_make_actions"
    /\ Tried.done >= 1
    /\ Tried.state # before
    /\ room = before

\* C2: in every committed state every user holds the dependencies of every
\* role they hold.
C2_DependencyClosure ==
    \A u \in DOMAIN room.user_roles : \A role \in room.user_roles[u] :
        /\ role \in DOMAIN room.policy.roles
        /\ Range(room.policy.roles[role].dependencies) \subseteq room.user_roles[u]

\* a user holds a custom role whose dependencies were edited after its creation
C2_Witness ==
    /\ "Custom1" \in DOMAIN room.policy.roles
    /\ Range(room.policy.roles["Custom1"].dependencies) = {"Regular", "Moderator"}
    /\ Holds(room, "@bob", "Custom1")
    /\ pc = "returned" /\ result.err = "Ok"
    /\ \E i \in DOMAIN call.actions :
          /\ call.actions[i].kind = "ChangePolicyRole"
          /\ call.actions[i].action.kind = "AddDependency"

\* C3: in every committed state the number of holders of every role lies
\* between the role's min and, when present, its max.
C3_MinMax ==
    \A role \in DOMAIN room.policy.roles :
        LET holders == Cardinality({u \in DOMAIN room.user_roles : role \in room.user_roles[u]})
            info == room.policy.roles[role]
        IN  /\ holders >= info.min
            /\ \A max \in info.max : holders <= max

\* a batch that edits the Owner role's bounds is committed with the count at the edited bound
C3_Witness ==
    /\ pc = "returned" /\ result.err = "Ok"
    /\ \E i \in DOMAIN call.actions :
          /\ call.actions[i].kind = "ChangePolicyRole"
          /\ call.actions[i].action.kind \in {"SetMin", "SetMax"}
    /\ room.policy.roles["Owner"] # before.policy.roles["Owner"]
    /\ room.policy.roles["Owner"].max = Some(Cardinality({u \in DOMAIN room.user_roles :
                                                            "Owner" \in room.user_roles[u]}))

\* C4: in every committed state exactly one user holds the Owner role.
C4_ExactlyOneOwner ==
    Cardinality({u \in DOMAIN room.user_roles : "Owner" \in room.user_roles[u]}) = 1

\* C5: Kick{target: Owner} submitted by the Owner passes try_make_actions, is
\* rejected by make_actions with RoleMinMaxViolated, and the Owner keeps all roles.
C5_OwnerSelfKick ==
    (/\ pc = "returned"
     /\ Holds(before, call.user_id, "Owner")
     /\ call.actions = <<[kind |-> "Kick", target |-> call.user_id]>>)
    => /\ Tried.err = "Ok"
       /\ result = [err |-> "RoleMinMaxViolated", stage |-> "consistency_checks"]
       /\ room = before

\* C6: a user with a ban entry without expiry stays banned and outside the room
\* in every later committed state, and a batch whose final state gives them a
\* role is rejected.
C6_BannedCannotRejoin ==
    \A u \in UserIds : PermBanned(before, u) =>
        /\ PermBanned(room, u)
        /\ u \notin DOMAIN room.user_roles
        /\ u \notin Range(joined_users(room))
        /\ (pc = "returned" /\ Tried.err = "Ok" /\ RolesOf(Tried.state, u) # {})
              => (result.err # "Ok" /\ room = before)

\* another user's GiveRole to a banned user passes try_make_actions and is rejected
C6_Witness ==
    /\ pc = "returned"
    /\ \E u \in UserIds :
          /\ PermBanned(before, u)
          /\ Tried.err = "Ok"
          /\ RolesOf(Tried.state, u) # {}
          /\ result = [err |-> "Banned", stage |-> "consistency_checks"]

\* C7: a non-empty batch of an actor with a ban entry without expiry fails with
\* Banned before any of its actions is evaluated, and nothing is committed.
C7_BannedActorRejected ==
    (pc = "returned" /\ PermBanned(before, call.user_id) /\ call.actions # <<>>)
    => /\ result = [err |-> "Banned", stage |-> "try_make_actions"]
       /\ Tried.err = "Banned"
       /\ Tried.done = 0
       /\ room = before

\* a banned actor submits a batch whose actions would all pass without the ban
C7_Witness ==
    /\ pc = "returned"
    /\ PermBanned(before, call.user_id)
    /\ call.actions # <<>>
    /\ ApplyActions(before, call.user_id, call.actions, 0).err = "Ok"
    /\ result.err = "Banned"

TargetedKinds == {"Kick", "Ban", "DropRole", "EditMessage", "DeleteMessage"}

\* the i-th action of the last call is reached by the loop and targets a
\* user, other than the actor, who holds Owner at that point
AimsAtOwner(i) ==
    /\ call.actions[i].kind \in TargetedKinds
    /\ call.actions[i].target # call.user_id
    /\ PrefixRun(i).err = "Ok"
    /\ Holds(PrefixRun(i).state, call.actions[i].target, "Owner")

\* C8 as stated: every Kick, Ban, DropRole, EditMessage and DeleteMessage that
\* targets the Owner and comes from another actor fails with NotCapable.
C8_OwnerProtectedNotCapable ==
    pc = "returned" =>
        \A i \in DOMAIN call.actions : AimsAtOwner(i) => result.err = "NotCapable"

\* C8, amended: such an action fails - with Banned (before any action runs) when
\* the actor has a ban entry, with RoleNotDefined when the actor at that point
\* holds a role the policy does not define, otherwise with NotCapable - the
\* batch is rejected, and no call by another actor removes a role from an Owner.
C8_OwnerProtected ==
    pc = "returned" =>
        /\ \A i \in DOMAIN call.actions : AimsAtOwner(i) =>
              LET pre == PrefixRun(i).state
                  failed == ApplyAction(pre, call.user_id, call.actions[i])
                  undefined == \E role \in RolesOf(pre, call.user_id) :
                                  role \notin DOMAIN pre.policy.roles
              IN  /\ failed.err = IF undefined THEN "RoleNotDefined" ELSE "NotCapable"
                  /\ result.err = IF PermBanned(before, call.user_id) THEN "Banned"
                                  ELSE failed.err
                  /\ result.stage = "try_make_actions"
                  /\ room = before
        /\ \A u \in DOMAIN before.user_roles :
              ("Owner" \in before.user_roles[u] /\ u # call.user_id)
              => (u \in DOMAIN room.user_roles /\ before.user_roles[u] \subseteq room.user_roles[u])

\* an Admin, who has every capability, aims a Kick or Ban at the Owner
C8_Witness ==
    /\ pc = "returned"
    /\ Holds(before, call.user_id, "Admin")
    /\ \E i \in DOMAIN call.actions :
          AimsAtOwner(i) /\ call.actions[i].kind \in {"Kick", "Ban"}
    /\ result.err = "NotCapable"

\* C9: a target holding Admin but not Owner is protected from every other
\* member except the Owner, who can therefore Kick, Ban or DropRole the Admin.
C9_AdminsProtectedExceptFromOwner ==
    \A actor \in DOMAIN room.user_roles, target \in DOMAIN room.user_roles :
        (actor # target /\ Holds(room, target, "Admin") /\ ~Holds(room, target, "Owner"))
        => is_protected_from(room, actor, target) = OkB(~Holds(room, actor, "Owner"))

\* C10: a Moderator's EditMessage targeting an Admin fails with NotCapable and
\* an Admin's EditMessage targeting a Moderator succeeds.
C10_ModeratorAdminEdit ==
    LET ModeratorOnly(u) == Holds(before, u, "Moderator") /\ ~Holds(before, u, "Admin")
        AdminOnly(u) == Holds(before, u, "Admin") /\ ~Holds(before, u, "Owner")
    IN  (pc = "returned" /\ Len(call.actions) = 1 /\ call.actions[1].kind = "EditMessage")
        => /\ (ModeratorOnly(call.user_id) /\ AdminOnly(call.actions[1].target))
                 => result.err = "NotCapable"
           /\ (AdminOnly(call.user_id) /\ ModeratorOnly(call.actions[1].target))
                 => result.err = "Ok"

\* the rank of a member: the highest structural role they hold
Rank(s, u) ==
    LET held == {RoleOrd(role) : role \in RolesOf(s, u) \cap StructuralRoles}
    IN  IF held = {} THEN 0 ELSE CHOOSE n \in held : \A k \in held : k <= n

\* C11: for members A, B, C of a committed state with A different from B and
\* C, when A is protected from B and C has strictly lower rank than B, A is
\* protected from C.
C11_ProtectionMonotone ==
    \A a \in DOMAIN room.user_roles, b \in DOMAIN room.user_roles, c \in DOMAIN room.user_roles :
        (/\ a # b /\ a # c
         /\ is_protected_from(room, b, a) = OkB(TRUE)
         /\ Rank(room, c) < Rank(room, b))
        => is_protected_from(room, c, a) = OkB(TRUE)

\* C12: new_from_template returns a verified state for every template, and
\* make_actions with a non-empty batch returns Ok or an Error, never aborting.
C12_NoAbort ==
    /\ \A t \in PolicyTemplate : VerifiedFromTemplate(OwnerId, t) # {}
    /\ (pc = "returned" /\ call.actions # <<>>) => result.err # "Panic"

\* C13: make_actions from a given committed state with a given actor and
\* batch has one result, whatever the iteration order of the hash maps.
C13_Deterministic ==
    pc = "returned" => Cardinality(make_actions(before, call.user_id, call.actions)) = 1

\* the policy is the one the room's template created
Unedited(s) == \E v \in VerifiedFromTemplate(OwnerId, template) : s.policy = v.policy

NonMember(s, u) == u \notin DOMAIN s.user_roles

\* the last call submitted the batch join_room_actions returns for its actor
JoinCall ==
    /\ pc = "returned"
    /\ join_room_actions(before, call.user_id).err = "Ok"
    /\ call.actions = join_room_actions(before, call.user_id).val

JoinRoles == {call.actions[i].role : i \in DOMAIN call.actions}

SendOf(message_type) == <<[kind |-> "SendMessage", message_type |-> message_type]>>

\* C14: in an Announcement room a user who joined through join_room_actions
\* holds exactly Restricted; a user holding exactly Restricted is authorized
\* to send Reaction and gets NotCapable for every other message type; the
\* Owner's GiveRole Regular to them succeeds, and a holder of Regular sends Image.
C14_AnnouncementVisitor ==
    (template = "Announcement" /\ Unedited(before) /\ pc = "returned") =>
        LET u == call.user_id
        IN  /\ (JoinCall /\ NonMember(before, u) /\ result.err = "Ok")
                  => RolesOf(room, u) = {"Restricted"}
            /\ \A m \in MessageType :
                  (RolesOf(before, u) = {"Restricted"} /\ call.actions = SendOf(m))
                  => result.err = IF m = "Reaction" THEN "Ok" ELSE "NotCapable"
            /\ \A v \in UserIds :
                  (/\ Holds(before, u, "Owner")
                   /\ RolesOf(before, v) = {"Restricted"}
                   /\ call.actions = <<[kind |-> "GiveRole", target |-> v, role |-> "Regular"]>>)
                  => (result.err = "Ok" /\ RolesOf(room, v) = {"Restricted", "Regular"})
            /\ (RolesOf(before, u) = {"Restricted", "Regular"} /\ call.actions = SendOf("Image"))
                  => result.err = "Ok"

\* a visitor is denied an Image in an Announcement room
C14_Witness ==
    /\ template = "Announcement" /\ Unedited(before) /\ pc = "returned"
    /\ RolesOf(before, call.user_id) = {"Restricted"}
    /\ call.actions = SendOf("Image")
    /\ result.err = "NotCapable"

\* C15: in an InviteOnly room with an unedited policy join_room_actions
\* returns NotCapable for every user id, and every batch of a non-member
\* fails and leaves joined_users as it was.
C15_InviteOnlyClosed ==
    (template = "InviteOnly" /\ Unedited(before)) =>
        /\ \A u \in UserIds : join_room_actions(before, u).err = "NotCapable"
        /\ (pc = "returned" /\ NonMember(before, call.user_id))
              => (result.err # "Ok" /\ joined_users(room) = joined_users(before))

\* a non-member's hand-built GiveRole on themself is rejected
C15_Witness ==
    /\ template = "InviteOnly" /\ Unedited(before) /\ pc = "returned"
    /\ NonMember(before, call.user_id)
    /\ call.actions = <<[kind |-> "GiveRole", target |-> call.user_id, role |-> "Restricted"]>>
    /\ result.err = "NotCapable"
    /\ joined_users(room) = <<OwnerId>>

\* C16: in a Public room an outsider who submits the batch of
\* join_room_actions holds Regular afterwards and may send Text.
C16_PublicJoinsRegular ==
    (/\ template = "Public" /\ Unedited(before) /\ JoinCall
     /\ NonMember(before, call.user_id) /\ result.err = "Ok")
    => /\ Holds(room, call.user_id, "Regular")
       /\ ApplySendMessage(room, call.user_id, SendOf("Text")[1]).err = "Ok"

\* the batches by which a member could invite v as a Regular user
InviteBatches(v) == SeqsUpTo(GiveRoleActions({v}, {"Restricted", "Regular"}), MaxBatch)

\* C17: in InviteOnly and Knock rooms with an unedited policy a member holding
\* Regular and not Moderator has a batch that makes a non-member a member
\* holding Regular.
C17_RegularCanInvite ==
    (template \in {"InviteOnly", "Knock"} /\ Unedited(room) /\ pc = "idle") =>
        \A u \in DOMAIN room.user_roles, v \in UserIds \ DOMAIN room.user_roles :
            (/\ Holds(room, u, "Regular") /\ ~Holds(room, u, "Moderator")
             /\ v \notin DOMAIN room.users_banned)
            => \E b \in InviteBatches(v) : \E r \in make_actions(room, u, b) :
                  r.err = "Ok" /\ Holds(r.state, v, "Regular")

\* C18: in a FixedMembership room with an unedited policy a call that adds a
\* user to the room was submitted by an actor holding Admin.
C18_OnlyAdminsInvite ==
    (/\ template = "FixedMembership" /\ Unedited(before) /\ pc = "returned"
     /\ \E v \in DOMAIN room.user_roles : NonMember(before, v))
    => Holds(before, call.user_id, "Admin")

\* a Moderator's GiveRole Regular to a non-member is rejected for the missing Restricted
C18_Witness ==
    /\ template = "FixedMembership" /\ Unedited(before) /\ pc = "returned"
    /\ Holds(before, call.user_id, "Moderator") /\ ~Holds(before, call.user_id, "Admin")
    /\ \E v \in UserIds :
          /\ NonMember(before, v)
          /\ call.actions = <<[kind |-> "GiveRole", target |-> v, role |-> "Regular"]>>
    /\ result = [err |-> "RoleDependencyViolated", stage |-> "consistency_checks"]
    /\ DOMAIN room.user_roles = DOMAIN before.user_roles

\* C19: in a templated room that allows joining, the join batch of an
\* outsider (without a ban entry) succeeds, and submitted again by the same
\* user it fails with NothingToDo and changes nothing.
C19_JoinTwice ==
    (JoinCall /\ template \in {"Announcement", "Public"} /\ Unedited(before)) =>
        /\ (NonMember(before, call.user_id) /\ ~PermBanned(before, call.user_id))
              => (result.err = "Ok" /\ RolesOf(room, call.user_id) = JoinRoles)
        /\ RolesOf(before, call.user_id) = JoinRoles
              => (result.err = "NothingToDo" /\ room = before)

\* the last call was the committed batch [Kick{t}]
KickedOut(t) ==
    /\ pc = "returned" /\ result.err = "Ok"
    /\ call.actions = <<[kind |-> "Kick", target |-> t]>>

\* after the kick t holds no role, is no member and has no ban entry
KickedIsOutsider(t) ==
    /\ RolesOf(room, t) = {}
    /\ NonMember(room, t)
    /\ t \notin Range(joined_users(room))
    /\ t \notin DOMAIN room.users_banned

\* the batch of join_room_actions submitted by t is committed and t is a member
Rejoins(t) ==
    \A r \in make_actions(room, t, join_room_actions(room, t).val) :
        r.err = "Ok" /\ ~NonMember(r.state, t)

\* C20: after a committed batch [Kick{t}], t is an outsider without a ban
\* entry, and where the Outsider role declares GiveRoleSelf the batch of
\* join_room_actions submitted by t succeeds.
C20_KickedMayRejoin ==
    \A t \in UserIds : KickedOut(t) =>
        /\ KickedIsOutsider(t)
        /\ join_room_actions(room, t).err = "Ok" => Rejoins(t)

\* user ids compared as byte strings
ByteLess(u, v) ==
    <<u, v>> \in {<<"@bob", "@carol">>, <<"@bob", "@owner">>, <<"@carol", "@owner">>}

\* C21: in every committed state no user is mapped to an empty role set, and
\* joined_users is the strictly ascending list of the users holding a role; a
\* freshly created room returns exactly [owner].
C21_MembersHoldRoles ==
    LET joined == joined_users(room)
    IN  /\ \A u \in DOMAIN room.user_roles : room.user_roles[u] # {}
        /\ Range(joined) = {u \in UserIds : RolesOf(room, u) # {}}
        /\ \A i \in DOMAIN joined, k \in DOMAIN joined : i < k => ByteLess(joined[i], joined[k])
        /\ (pc = "idle" /\ room \in VerifiedFromTemplate(OwnerId, template))
              => joined = <<OwnerId>>

\* a call took the last role from one of three members, who left the mapping
C21_Witness ==
    /\ pc = "returned" /\ result.err = "Ok"
    /\ DOMAIN before.user_roles = UserIds
    /\ \E u \in UserIds : NonMember(room, u) /\ Tried.state.user_roles[u] = {}
    /\ Len(joined_users(room)) = 2

\* the i-th action of the last call is ChangePolicyRole{Remove} of a
\* structural role and is reached by the loop
RemovesStructural(i) ==
    /\ call.actions[i].kind = "ChangePolicyRole"
    /\ call.actions[i].action.kind = "Remove"
    /\ ~is_custom(call.actions[i].target)
    /\ Tried.done >= i - 1
    /\ ActorBanCheck(before, call.user_id) = "Ok"

\* C23: in every committed state the six structural roles are defined, and a
\* batch with a ChangePolicyRole{Remove} of a structural role is rejected with
\* an Error value and removes nothing.
C23_StructuralRolesStay ==
    /\ StructuralRoles \subseteq DOMAIN room.policy.roles
    /\ (pc = "returned" /\ \E i \in DOMAIN call.actions : RemovesStructural(i))
          => (result.err \notin {"Ok", "Panic"} /\ room = before)

\* C24: in every committed state the Outsider role's max is 0 and no user
\* holds the Outsider role.
C24_NoOutsiderInside ==
    /\ room.policy.roles["Outsider"].max = Some(0)
    /\ \A u \in DOMAIN room.user_roles : "Outsider" \notin room.user_roles[u]

-----------------------------------------------------------------------------
(* The arms of try_make_actions, action by action.  An action of the last    *)
(* call is examined in the working state the loop had reached.               *)

\* the actions of the given kind the loop of the last call evaluated
Acts(kinds) ==
    {i \in DOMAIN call.actions :
        /\ call.actions[i].kind \in kinds
        /\ ActorBanCheck(before, call.user_id) = "Ok"
        /\ PrefixRun(i).err = "Ok"}

Pre(i) == PrefixRun(i).state

Outcome(i) == ApplyAction(Pre(i), call.user_id, call.actions[i])

\* the roles whose capabilities count for u: the held ones, Outsider for a stranger
CountedRoles(s, u) == IF u \in DOMAIN s.user_roles THEN s.user_roles[u] ELSE {"Outsider"}

HoldsUndefined(s, u) == \E role \in CountedRoles(s, u) : role \notin DOMAIN s.policy.roles

\* the capability is declared by one of the user's roles, or the user holds Admin
HasCapability(s, u, capability) ==
    \/ \E role \in CountedRoles(s, u) \cap DOMAIN s.policy.roles :
          capability \in Range(s.policy.roles[role].role_capabilities)
    \/ Holds(s, u, "Admin")

Protected(s, actor, target) == is_protected_from(s, actor, target) = OkB(TRUE)

\* post differs from pre at most in the roles of target
OthersUntouched(pre, post, target) ==
    /\ post.policy = pre.policy
    /\ \A u \in UserIds \ {target} :
          /\ NonMember(post, u) <=> NonMember(pre, u)
          /\ RolesOf(post, u) = RolesOf(pre, u)

\* the capability test an action with a target applies to its actor
PassesCapability(s, actor, a) ==
    CASE a.kind = "Kick" -> actor = a.target \/ HasCapability(s, actor, Cap("Kick"))
      [] a.kind = "Ban" -> actor # a.target /\ HasCapability(s, actor, Cap("Ban"))
      [] a.kind = "DropRole" ->
            actor = a.target \/ HasCapability(s, actor, CapRole("DropRoleOther", a.role))
      [] a.kind = "EditMessage" ->
            actor # a.target /\ HasCapability(s, actor, Cap("EditMessageOther"))
      [] a.kind = "DeleteMessage" ->
            actor # a.target /\ HasCapability(s, actor, Cap("DeleteMessageOther"))

\* the action fails the batch with err and nothing is committed
Rejects(i, err) ==
    /\ Outcome(i).err = err
    /\ result = [err |-> err, stage |-> "try_make_actions"]
    /\ room = before

\* C22 as stated: every Kick, Ban, DropRole, EditMessage and DeleteMessage
\* whose target is not in the membership mapping fails with UserNotInRoom and
\* changes nothing, for every non-banned actor.
C22_AbsentTargetUserNotInRoom ==
    pc = "returned" =>
        \A i \in Acts(TargetedKinds) :
            NonMember(Pre(i), call.actions[i].target) => Rejects(i, "UserNotInRoom")

\* C22, amended: such an action fails and changes nothing - with UserNotInRoom
\* when the actor passes the action's capability test (a Kick or DropRole on
\* themself, or the capability declared or through Admin), with NotCapable
\* when the actor does not, and with RoleNotDefined when the actor at that
\* point of the batch holds a role the policy does not define.
C22_AbsentTargetFails ==
    pc = "returned" =>
        \A i \in Acts(TargetedKinds) :
            NonMember(Pre(i), call.actions[i].target) =>
                Rejects(i, IF HoldsUndefined(Pre(i), call.user_id) THEN "RoleNotDefined"
                           ELSE IF PassesCapability(Pre(i), call.user_id, call.actions[i])
                           THEN "UserNotInRoom"
                           ELSE "NotCapable")

\* a Moderator's EditMessage aimed at a user outside the room
C22_Witness ==
    /\ pc = "returned"
    /\ Holds(before, call.user_id, "Moderator")
    /\ \E v \in UserIds :
          NonMember(before, v) /\ call.actions = <<[kind |-> "EditMessage", target |-> v]>>
    /\ result.err = "UserNotInRoom"

\* GiveRole as the claim states it; withUndefined adds the RoleNotDefined case
GiveRoleRule(i, withUndefined) ==
    LET a == call.actions[i]
        pre == Pre(i)
        out == Outcome(i)
        authorized ==
            \/ call.user_id = a.target
                  /\ HasCapability(pre, call.user_id, CapRole("GiveRoleSelf", a.role))
            \/ HasCapability(pre, call.user_id, CapRole("GiveRoleOther", a.role))
    IN  /\ out.err = IF withUndefined /\ HoldsUndefined(pre, call.user_id) THEN "RoleNotDefined"
                     ELSE IF ~authorized THEN "NotCapable"
                     ELSE IF a.role \in RolesOf(pre, a.target) THEN "NothingToDo"
                     ELSE "Ok"
        /\ out.err = "Ok" =>
              /\ ~NonMember(out.state, a.target)
              /\ out.state.user_roles[a.target] = RolesOf(pre, a.target) \cup {a.role}
              /\ OthersUntouched(pre, out.state, a.target)
              /\ out.state.users_banned = pre.users_banned

\* C27 as stated: GiveRole by a non-banned actor is authorized iff the actor
\* is the target and has GiveRoleSelf{role}, or has GiveRoleOther{role}
\* (declared or through Admin); authorized it fails with NothingToDo for a
\* role already held and otherwise adds exactly that role; else NotCapable.
C27_GiveRole ==
    pc = "returned" => \A i \in Acts({"GiveRole"}) : GiveRoleRule(i, FALSE)

\* C27, amended: the same, for an actor whose roles at that point of the batch
\* are all defined in the policy; an actor holding an undefined role, Admin
\* or not, gets RoleNotDefined.
C27_GiveRoleDefinedRoles ==
    pc = "returned" => \A i \in Acts({"GiveRole"}) : GiveRoleRule(i, TRUE)

\* an Admin without the declared capability gives a role to a user outside the room
C27_Witness ==
    /\ pc = "returned" /\ result.err = "Ok"
    /\ \E i \in Acts({"GiveRole"}) :
          /\ NonMember(Pre(i), call.actions[i].target)
          /\ call.actions[i].target # call.user_id
          /\ Holds(Pre(i), call.user_id, "Admin")
          /\ ~NonMember(room, call.actions[i].target)

\* DropRole as the claim states it; withErrors adds the target outside the
\* room and the actor holding an undefined role
DropRoleRule(i, withErrors) ==
    LET a == call.actions[i]
        pre == Pre(i)
        out == Outcome(i)
        capable == HasCapability(pre, call.user_id, CapRole("DropRoleOther", a.role))
        authorized ==
            \/ call.user_id = a.target
            \/ capable /\ ~Protected(pre, call.user_id, a.target)
    IN  /\ out.err = IF withErrors /\ HoldsUndefined(pre, call.user_id) THEN "RoleNotDefined"
                     ELSE IF withErrors /\ NonMember(pre, a.target)
                     THEN (IF call.user_id = a.target \/ capable THEN "UserNotInRoom"
                           ELSE "NotCapable")
                     ELSE IF ~authorized THEN "NotCapable"
                     ELSE IF a.role \notin RolesOf(pre, a.target) THEN "NothingToDo"
                     ELSE "Ok"
        /\ out.err = "Ok" =>
              /\ out.state.user_roles[a.target] = RolesOf(pre, a.target) \ {a.role}
              /\ OthersUntouched(pre, out.state, a.target)
              /\ out.state.users_banned = pre.users_banned

\* C28 as stated: DropRole is authorized iff the actor is the target, or has
\* DropRoleOther{role} (declared or through Admin) and the target is not
\* protected from the actor; authorized it removes exactly that role and fails
\* with NothingToDo if the target does not hold it; else NotCapable.
C28_DropRole ==
    pc = "returned" => \A i \in Acts({"DropRole"}) : DropRoleRule(i, FALSE)

\* C28, amended: the same, for a target in the membership mapping and an
\* actor whose roles are all defined; a target outside the mapping fails with
\* UserNotInRoom (NotCapable for another actor without the capability), an
\* actor holding an undefined role gets RoleNotDefined.
C28_DropRoleOfMember ==
    pc = "returned" => \A i \in Acts({"DropRole"}) : DropRoleRule(i, TRUE)

\* a member holding neither DropRoleOther nor Admin drops one of their own roles
C28_Witness ==
    /\ pc = "returned" /\ result.err = "Ok"
    /\ Len(call.actions) = 1 /\ call.actions[1].kind = "DropRole"
    /\ call.actions[1].target = call.user_id
    /\ ~Holds(before, call.user_id, "Admin")
    /\ RolesOf(room, call.user_id) = RolesOf(before, call.user_id) \ {call.actions[1].role}
    /\ RolesOf(room, call.user_id) # RolesOf(before, call.user_id)

\* Kick as the claim states it; withUndefined adds the RoleNotDefined case
KickRule(i, withUndefined) ==
    LET a == call.actions[i]
        pre == Pre(i)
        out == Outcome(i)
        authorized ==
            \/ call.user_id = a.target
            \/ /\ HasCapability(pre, call.user_id, Cap("Kick"))
               /\ ~Protected(pre, call.user_id, a.target)
    IN  IF withUndefined /\ call.user_id # a.target /\ HoldsUndefined(pre, call.user_id)
        THEN out.err = "RoleNotDefined"
        ELSE /\ ~authorized => out.err = "NotCapable"
             /\ (authorized /\ ~NonMember(pre, a.target)) =>
                   /\ out.err = "Ok"
                   /\ RolesOf(out.state, a.target) = {}
                   /\ OthersUntouched(pre, out.state, a.target)
                   /\ out.state.users_banned = pre.users_banned

\* C29 as stated: Kick is authorized iff the actor is the target, or has Kick
\* (declared or through Admin) and the target is not protected from the
\* actor; authorized, with a member as target, it removes every role of the
\* target, changes no other user's roles and creates no ban entry; else
\* NotCapable.
C29_Kick ==
    pc = "returned" => \A i \in Acts({"Kick"}) : KickRule(i, FALSE)

\* C29, amended: the same, except that an actor other than the target who at
\* that point of the batch holds a role the policy does not define gets
\* RoleNotDefined.
C29_KickDefinedRoles ==
    pc = "returned" => \A i \in Acts({"Kick"}) : KickRule(i, TRUE)

\* a Moderator who is not Admin kicks another member and the batch is committed
C29_Witness ==
    /\ pc = "returned" /\ result.err = "Ok"
    /\ Len(call.actions) = 1 /\ call.actions[1].kind = "Kick"
    /\ call.actions[1].target # call.user_id
    /\ Holds(before, call.user_id, "Moderator") /\ ~Holds(before, call.user_id, "Admin")
    /\ RolesOf(before, call.actions[1].target) # {}
    /\ NonMember(room, call.actions[1].target)

\* Ban as the claim states it; withErrors adds the target outside the room
\* and the actor holding an undefined role
BanRule(i, withErrors) ==
    LET a == call.actions[i]
        pre == Pre(i)
        out == Outcome(i)
        capable == call.user_id # a.target /\ HasCapability(pre, call.user_id, Cap("Ban"))
        authorized == capable /\ ~Protected(pre, call.user_id, a.target)
    IN  IF withErrors /\ call.user_id # a.target /\ HoldsUndefined(pre, call.user_id)
        THEN out.err = "RoleNotDefined"
        ELSE IF withErrors /\ NonMember(pre, a.target)
        THEN out.err = IF capable THEN "UserNotInRoom" ELSE "NotCapable"
        ELSE /\ ~authorized => out.err = "NotCapable"
             /\ authorized =>
                   /\ out.err = "Ok"
                   /\ RolesOf(out.state, a.target) = {}
                   /\ OthersUntouched(pre, out.state, a.target)
                   /\ DOMAIN out.state.users_banned = DOMAIN pre.users_banned \cup {a.target}
                   /\ out.state.users_banned[a.target] =
                         [creator |-> call.user_id, reason |-> a.reason, until |-> a.until]
                   /\ \A u \in DOMAIN pre.users_banned \ {a.target} :
                         out.state.users_banned[u] = pre.users_banned[u]

-----------------------------------------------------------------------------
(* The map encoding of tls.rs *)

\* the map went through tls_serialize and tls_deserialize_bytes untouched
ReadBack == wire.stage = "read" /\ wire.declared = None

\* C25: for every map, the empty one included, tls_deserialize_bytes on the
\* bytes written by tls_serialize returns an equal map and an empty
\* remainder, and tls_serialize returns the number of bytes it wrote
C25_RoundTrip ==
    /\ (wire.stage = "written" \/ ReadBack) =>
          /\ wire.written.err = WireOk
          /\ wire.written.len = Len(wire.written.bytes)
          /\ wire.written.len = tls_serialized_len(wire.map)
    /\ ReadBack =>
          wire.read = [err |-> WireOk, map |-> wire.map, rest |-> <<>>]

\* a map of three pairs, one of them with a two-byte string length, came back
C25_Witness ==
    /\ ReadBack
    /\ DOMAIN wire.map = WireKeys
    /\ \E k \in WireKeys : Len(wire.map[k]) = MaxValueLen
    /\ \E k \in WireKeys : wire.map[k] = <<>>
    /\ wire.read.err = WireOk
    /\ Len(wire.written.bytes) > 64

\* the offsets in the content of a serialized map at which a pair ends
PairEnds(map) ==
    LET keys == KeysInOrder(DOMAIN map)
    IN  {ContentLength(map, SubSeq(keys, 1, n)) : n \in 0..Len(keys)}

\* C26: tls_deserialize_bytes returns an error when the pairs do not end
\* exactly at the declared content length, whether a pair straddles the
\* declared end or the declared length exceeds the content
C26_RejectsWrongLength ==
    (wire.stage = "read" /\ wire.declared # None) =>
        \A len \in wire.declared :
            len \notin PairEnds(wire.map) => wire.read.err # WireOk

-----------------------------------------------------------------------------
(* Bans of banned users, the role table, and users without roles *)

\* the actor may ban the target in state s as far as the actor is concerned:
\* another user, holding the Ban capability or Admin, all roles defined
MayBan(s, actor, target) ==
    /\ actor # target
    /\ ~HoldsUndefined(s, actor)
    /\ HasCapability(s, actor, Cap("Ban"))

\* C31: a Ban by an authorized actor against a target banned in an earlier
\* committed batch succeeds and replaces the stored entry with the new
\* creator, reason and until.
C31_BanReplaces ==
    pc = "returned" =>
        \A i \in Acts({"Ban"}) :
            LET a == call.actions[i]
            IN  (/\ a.target \in DOMAIN before.users_banned
                 /\ a.target \in DOMAIN Pre(i).users_banned
                 /\ MayBan(Pre(i), call.user_id, a.target))
                => /\ Outcome(i).err = "Ok"
                   /\ Outcome(i).state.users_banned[a.target] =
                         [creator |-> call.user_id, reason |-> a.reason, until |-> a.until]

\* the actions of the given kinds the loop of the last call would reach,
\* whether or not the actor's ban entry stops the call before the loop
Reached(kinds) ==
    {i \in DOMAIN call.actions : call.actions[i].kind \in kinds /\ PrefixRun(i).err = "Ok"}

MembershipAndMessageKinds ==
    {"Kick", "Ban", "GiveRole", "DropRole", "SendMessage", "EditMessage", "DeleteMessage"}

\* the role table changes only in a ChangePolicyRole of an actor holding
\* Admin; the other actions and the commit leave it as it is
RoleTableFrame ==
    /\ \A i \in Acts(MembershipAndMessageKinds) :
          Outcome(i).err = "Ok" => Outcome(i).state.policy = Pre(i).policy
    /\ room.policy # before.policy =>
          \E i \in Acts({"ChangePolicyRole"}) :
              /\ Holds(Pre(i), call.user_id, "Admin")
              /\ Outcome(i).err = "Ok"
              /\ Outcome(i).state.policy # Pre(i).policy

\* C32 as stated: every ChangePolicyRole by an actor without Admin, member or
\* not, fails with NotCapable, and Kick, Ban, GiveRole, DropRole, SendMessage,
\* EditMessage and DeleteMessage never change the role table.
C32_RoleTableAdminOnly ==
    pc = "returned" =>
        /\ \A i \in Reached({"ChangePolicyRole"}) :
              ~Holds(PrefixRun(i).state, call.user_id, "Admin") =>
                  /\ result = [err |-> "NotCapable", stage |-> "try_make_actions"]
                  /\ room = before
        /\ RoleTableFrame

\* C32, amended: such a ChangePolicyRole fails with Banned, before any action
\* runs, when the actor has a ban entry, and with NotCapable otherwise; the
\* role table changes only in a ChangePolicyRole of an actor holding Admin.
C32_RoleTableAdminOrBanned ==
    pc = "returned" =>
        /\ \A i \in Reached({"ChangePolicyRole"}) :
              ~Holds(PrefixRun(i).state, call.user_id, "Admin") =>
                  /\ result = [err |-> IF PermBanned(before, call.user_id) THEN "Banned"
                                       ELSE "NotCapable",
                               stage |-> "try_make_actions"]
                  /\ room = before
        /\ RoleTableFrame

\* a Moderator's ChangePolicyRole is turned down
C32_Witness ==
    /\ pc = "returned"
    /\ Holds(before, call.user_id, "Moderator")
    /\ ~Holds(before, call.user_id, "Admin")
    /\ Len(call.actions) = 1 /\ call.actions[1].kind = "ChangePolicyRole"
    /\ result.err = "NotCapable"

\* C33: in every committed state every member holds the Restricted role.
C33_MembersHoldRestricted ==
    \A u \in DOMAIN room.user_roles : "Restricted" \in room.user_roles[u]

\* the last call is [Kick{self}, GiveRole{self, r}] for some role r
LeaveAndRejoin ==
    /\ Len(call.actions) = 2
    /\ call.actions[1] = [kind |-> "Kick", target |-> call.user_id]
    /\ call.actions[2].kind = "GiveRole"
    /\ call.actions[2].target = call.user_id

\* the two actions of the last call pass as two batches, one after the other
AuthorizedSeparately ==
    \E first \in make_actions(before, call.user_id, <<call.actions[1]>>) :
        /\ first.err = "Ok"
        /\ try_make_actions(first.state, call.user_id, <<call.actions[2]>>).err = "Ok"

\* C34: at every point of a batch a user without roles, absent from the
\* membership mapping or emptied by an earlier action of the batch, has
\* exactly the capabilities the Outsider role declares; so the batch
\* [Kick{self}, GiveRole{self, r}] is authorized exactly when its two actions
\* are as separate batches.
C34_NoRolesMeansOutsider ==
    pc = "returned" =>
        /\ \A i \in Acts(MembershipAndMessageKinds \cup {"ChangePolicyRole"}) :
              \A u \in UserIds :
                  RolesOf(Pre(i), u) = {} =>
                      user_explicit_capabilities(Pre(i), u) =
                          [err |-> "Ok",
                           val |-> Range(Pre(i).policy.roles["Outsider"].role_capabilities)]
        /\ (LeaveAndRejoin /\ ActorBanCheck(before, call.user_id) = "Ok")
              => (Tried.err = "Ok" <=> AuthorizedSeparately)

-----------------------------------------------------------------------------
(* The order of the checks of consistency_checks *)

\* some role of s has an illegal capability or an invalid dependency list
ShapeViolated(s) ==
    \E role \in DOMAIN s.policy.roles :
        LET info == Canonical(s.policy.roles[role])
            caps == Range(info.role_capabilities)
        IN  \/ role = "Outsider" /\ \E c \in caps : c.kind \notin {"Knock", "GiveRoleSelf"}
            \/ role \in {"Admin", "Owner"} /\ caps # {}
            \/ ~dependencies_valid(role, info)
            \/ role \in Range(info.dependencies)

LengthViolated(s) ==
    \E role \in DOMAIN s.policy.roles :
        \/ Len(s.policy.roles[role].role_name) > MaxStrLen
        \/ Len(s.policy.roles[role].role_description) > MaxStrLen

CardinalityViolated(s) ==
    \E role \in DOMAIN s.policy.roles :
        LET info == s.policy.roles[role]
            count == RoleCount(s, role)
        IN  count < info.min \/ \E max \in info.max : count > max

\* the errors of the earliest kind of check, in the stated order, that s fails
EarliestViolations(s) ==
    IF UserRoleErrors(s) # {} THEN {"RoleNotDefined", "RoleDependencyViolated"}
    ELSE IF ShapeViolated(s) THEN {"SpecialRole", "InvalidRoleDependencies"}
    ELSE IF LengthViolated(s) THEN {"StringTooLong"}
    ELSE IF CardinalityViolated(s) THEN {"RoleMinMaxViolated"}
    ELSE IF BanErrors(s) # {} THEN {"Banned"}
    ELSE {"Ok"}

\* C35: when the final state of a batch breaks more than one rule, the error
\* reported is that of the earliest check in the order dependency closure per
\* user, capability legality and dependency shape per role, name and
\* description length, cardinality, ban exclusivity.
C35_EarliestCheckReported ==
    (pc = "returned" /\ Tried.err = "Ok" /\ StructuralRolesDefined(Tried.state))
        => result.err \in EarliestViolations(Tried.state)

-----------------------------------------------------------------------------
(* Escalation, intermediate states, and strangers *)

Holders(s, role) == {u \in DOMAIN s.user_roles : role \in s.user_roles[u]}

\* the last call holds no ChangePolicyRole and started from a policy as the
\* template made it
UneditedCall ==
    /\ pc = "returned"
    /\ Unedited(before)
    /\ \A i \in DOMAIN call.actions : call.actions[i].kind # "ChangePolicyRole"

\* C36: in an unedited templated policy a user comes to hold Admin or Owner
\* only through a GiveRole of an actor who already holds Admin, and a batch of
\* an actor without Admin leaves the holders of Admin and Owner as they were,
\* but for roles the actor removes from themself.
C36_NoPrivilegeEscalation ==
    UneditedCall =>
        \A role \in {"Admin", "Owner"} :
            /\ \A u \in Holders(room, role) \ Holders(before, role) :
                  /\ Holds(before, call.user_id, "Admin")
                  /\ \E i \in Acts({"GiveRole"}) :
                        /\ call.actions[i].target = u
                        /\ call.actions[i].role = role
                        /\ Holds(Pre(i), call.user_id, "Admin")
            /\ ~Holds(before, call.user_id, "Admin") =>
                  Holders(room, role) \in
                      {Holders(before, role), Holders(before, role) \ {call.user_id}}

\* an Admin who is not the Owner made another user an Admin
C36_Witness ==
    /\ UneditedCall
    /\ result.err = "Ok"
    /\ ~Holds(before, call.user_id, "Owner")
    /\ \E u \in UserIds \ {call.user_id} :
          Holds(room, u, "Admin") /\ ~Holds(before, u, "Admin")

\* consistency_checks accepts s
Consistent(s) == \E c \in consistency_checks(s) : c.err = "Ok"

\* C37: the structural rules are checked on the final state of a batch only:
\* the batch is committed iff every action passes in the working state in
\* which it runs and the final state satisfies the rules, whatever rules the
\* states in between break.
C37_FinalStateOnly ==
    pc = "returned" =>
        /\ result.err = "Ok" <=> (Tried.err = "Ok" /\ Consistent(Tried.state))
        /\ result.err = "Ok" => room = Verified(Tried.state)
        /\ result.err # "Ok" => room = before

\* a committed batch of two GiveRole to one user whose state after the first
\* breaks a rule, so that the first alone, as a batch of its own, is rejected
C37_Witness ==
    /\ pc = "returned" /\ result.err = "Ok"
    /\ Len(call.actions) = 2
    /\ call.actions[1].kind = "GiveRole" /\ call.actions[2].kind = "GiveRole"
    /\ call.actions[1].target = call.actions[2].target
    /\ ~Consistent(Pre(2))
    /\ \A first \in make_actions(before, call.user_id, <<call.actions[1]>>) :
          first.stage = "consistency_checks"

\* the last call came from a user outside the room without a ban entry, with
\* a batch that holds no Knock
StrangerCall ==
    /\ pc = "returned"
    /\ NonMember(before, call.user_id)
    /\ call.user_id \notin DOMAIN before.users_banned
    /\ \A i \in DOMAIN call.actions : call.actions[i].kind # "Knock"

\* a is GiveRole{actor, r} with GiveRoleSelf{r} declared by the Outsider role of s
SelfJoin(s, actor, a) ==
    /\ a.kind = "GiveRole"
    /\ a.target = actor
    /\ CapRole("GiveRoleSelf", a.role) \in Range(s.policy.roles["Outsider"].role_capabilities)

\* C38: a batch without Knock of a non-member, non-banned actor succeeds only
\* if its first action is GiveRole{actor, r} with GiveRoleSelf{r} declared by
\* the Outsider role; every other first action among GiveRole, Kick, Ban,
\* DropRole, SendMessage, EditMessage, DeleteMessage and ChangePolicyRole
\* fails and leaves the state unchanged.
C38_StrangersOnlyJoin ==
    StrangerCall =>
        /\ result.err = "Ok" =>
              /\ call.actions # <<>>
              /\ SelfJoin(before, call.user_id, call.actions[1])
        /\ (/\ call.actions # <<>>
            /\ call.actions[1].kind \in MembershipAndMessageKinds \cup {"ChangePolicyRole"}
            /\ ~SelfJoin(before, call.user_id, call.actions[1]))
              => /\ result.err \notin {"Ok", "Panic"}
                 /\ result.stage = "try_make_actions"
                 /\ Tried.done = 0
                 /\ room = before

\* a user outside the room joined with a batch that starts with their own GiveRole
C38_Witness ==
    /\ StrangerCall
    /\ result.err = "Ok"
    /\ SelfJoin(before, call.user_id, call.actions[1])
    /\ ~NonMember(room, call.user_id)

====
